---------------------------- MODULE Spec2Model ----------------------------
(***************************************************************************)
(* Model of the browser sync engine: app/sync.js (handshake, dispatcher,   *)
(* backfill, resolver, poll timer) and js/state/syncUtil.js (record        *)
(* building, object ids, transport-safe serialization).                    *)
(*                                                                         *)
(* JavaScript values are modelled as follows.                              *)
(*  - A plain object or Immutable.Map is a TLA+ record; an absent field    *)
(*    is a field outside the record's DOMAIN.                              *)
(*  - null / undefined for a nullable reference is the empty tuple None,   *)
(*    a present value x is the one-element tuple Some(x).                  *)
(*  - The undefined returned by a builder is the record Undefined.         *)
(*  - A byte buffer, array or Immutable.List of bytes is a sequence of     *)
(*    integers, except in the serialization part (JsNum .. JsObj), which   *)
(*    distinguishes Uint8Array from Array.                                 *)
(***************************************************************************)
EXTENDS Integers, Sequences, FiniteSets, TLC

VARIABLES
  initialState,   \* argument of init(): [seed, deviceId], both nullable
  deviceId,       \* sync.js module variable deviceId (nullable)
  pollIntervalId, \* sync.js module variable pollIntervalId (nullable timer index)
  callbacks,      \* number of doAction callbacks registered on appDispatcher
  listeners,      \* number of GET_EXISTING_OBJECTS/RESOLVED_SYNC_RECORDS listener pairs
  timers,         \* timers made by setInterval: [t0, startAt, next, live]
  clock,          \* wall clock in seconds (Date.now() / 1000)
  sites,          \* appState.sites
  siteSettings,   \* appState.siteSettings: hostPattern -> setting
  sync,           \* appState.sync: [deviceId, lastFetchTimestamp]
  pending,        \* setObjectId actions dispatched and not yet applied by the store
  op,             \* the event handled by the last step
  out,            \* channel messages sent by the last step, in order
  reqs,           \* setObjectId actions dispatched by the last step, in order
  raised,         \* whether the last step's handler threw
  stopped,        \* stop() was called and no READY has been handled since
  resolution      \* what the sync client holds between GET_EXISTING_OBJECTS and
                  \* RESOLVED_SYNC_RECORDS: [objectId, phase] per object

vars == <<initialState, deviceId, pollIntervalId, callbacks, listeners, timers,
          clock, sites, siteSettings, sync, pending, op, out, reqs, raised, stopped,
          resolution>>

---------------------------------------------------------------------------
(* Bounds of the model *)

\* number of distinct values crypto.randomBytes(16) can return
NIds == 2
\* READY messages delivered at most
MaxReady == 2
\* last second of the wall clock
MaxTime == 4

(* Program constants *)

\* crypto.randomBytes(16)
IdLen == 16
\* config.fetchInterval, in seconds
FetchInterval == 2
\* proto.actions
CREATE == 0
UPDATE == 1
DELETE == 2

None == <<>>
Some(x) == <<x>>
Undefined == [undefined |-> TRUE]
\* the undefined produced by looking up an unknown key of an enum table
UndefinedNum == -1
\* an absent siteIndex argument
NoIndex == -1

Has(obj, f) == f \in DOMAIN obj
Includes(list, x) == \E i \in 1..Len(list) : list[i] = x

\* the values crypto.randomBytes(16) can return
RandomIds == {[i \in 1..IdLen |-> b] : b \in 1..NIds}

---------------------------------------------------------------------------
(* js/state/syncUtil.js *)

siteSettingDefaults ==
  [hostPattern |-> "", zoomLevel |-> 0, shieldsUp |-> TRUE, adControl |-> 1,
   cookieControl |-> 0, safeBrowsing |-> TRUE, noScript |-> FALSE,
   httpsEverywhere |-> TRUE, fingerprintingProtection |-> FALSE,
   ledgerPayments |-> TRUE, ledgerPaymentsShown |-> TRUE]

\* name -> server category (syncUtil.CATEGORY_MAP, used by sync.js)
CATEGORY_MAP ==
  [bookmark |-> "BOOKMARKS", historySite |-> "HISTORY_SITES",
   siteSetting |-> "PREFERENCES", device |-> "PREFERENCES"]

\* Object.keys(proto.categories)
categoryNames == <<"BOOKMARKS", "HISTORY_SITES", "PREFERENCES">>

now == clock

\* an isSyncable that takes every site setting that has any field at all
isSyncableAnyField(type, item) ==
  IF type = "bookmark" /\ Has(item, "tags")
  THEN Includes(item.tags, "bookmark") \/ Includes(item.tags, "bookmark-folder")
  ELSE IF type = "siteSetting"
  THEN DOMAIN item # {}
  ELSE FALSE

\* an isSyncable that takes every site with a tags field for a bookmark
isSyncableAnyTags(type, item) ==
  IF type = "bookmark" THEN Has(item, "tags")
  ELSE IF type = "siteSetting"
  THEN \E field \in DOMAIN siteSettingDefaults : Has(item, field)
  ELSE FALSE

\* isSyncable(type, item)
isSyncable(type, item) ==
  IF type = "bookmark" /\ Has(item, "tags")
  THEN Includes(item.tags, "bookmark") \/ Includes(item.tags, "bookmark-folder")
  ELSE IF type = "siteSetting"
  THEN \E field \in DOMAIN siteSettingDefaults : Has(item, field)
  ELSE FALSE

\* a setObjectId action for the object at objectPath
SitePath(i) == [coll |-> "sites", index |-> i, host |-> ""]
SettingPath(h) == [coll |-> "siteSettings", index |-> NoIndex, host |-> h]
SyncPath == [coll |-> "sync", index |-> NoIndex, host |-> ""]

\* newObjectId(objectPath): random is the value of crypto.randomBytes(16);
\* dispatches appActions.setObjectId and returns the id
newObjectId(objectPath, random) ==
  [objectId |-> random, reqs |-> <<[objectId |-> random, objectPath |-> objectPath]>>]

\* setObjectId(item): the item, with a random objectId unless it has one
setObjectId(item, random) ==
  IF Has(item, "objectId") THEN item
  ELSE [f \in DOMAIN item \cup {"objectId"} |->
          IF f = "objectId" THEN random ELSE item[f]]

siteDataDefaults ==
  [location |-> "", title |-> "", customTitle |-> "",
   lastAccessedTime |-> 0, creationTime |-> 0]

\* a builder that asks for a new object id whatever the object carries
ObjectIdAlwaysNew(obj, objectPath, random) == newObjectId(objectPath, random)

\* a builder that reuses the id of a setObjectId action the store has not
\* applied yet, and asks for none
ObjectIdOrPending(obj, objectPath, random) ==
  IF Has(obj, "objectId") THEN [objectId |-> obj.objectId, reqs |-> <<>>]
  ELSE IF \E q \in pending : q.objectPath = objectPath
  THEN [objectId |-> (CHOOSE q \in pending : q.objectPath = objectPath).objectId,
        reqs |-> <<>>]
  ELSE newObjectId(objectPath, random)

\* site.objectId || newObjectId(path)
ObjectIdOr(obj, objectPath, random) ==
  IF Has(obj, "objectId") THEN [objectId |-> obj.objectId, reqs |-> <<>>]
  ELSE newObjectId(objectPath, random)

\* createSiteData(site, siteIndex): [err, item, reqs]; err when it throws,
\* item = Undefined when it returns nothing
createSiteData(site, siteIndex, random) ==
  LET siteData == [f \in DOMAIN siteDataDefaults |->
                     IF Has(site, f) THEN site[f] ELSE siteDataDefaults[f]]
      id == ObjectIdOr(site, SitePath(siteIndex), random)
  IN IF isSyncable("bookmark", site)
     THEN IF ~Has(site, "objectId") /\ siteIndex = NoIndex
          THEN [err |-> TRUE, item |-> Undefined, reqs |-> <<>>]
          ELSE [err |-> FALSE,
                item |-> [name |-> "bookmark",
                          objectId |-> id.objectId,
                          value |-> [site |-> siteData,
                                     isFolder |-> Includes(site.tags, "bookmark-folder"),
                                     folderId |-> IF Has(site, "folderId") THEN site.folderId ELSE 0,
                                     parentFolderId |-> IF Has(site, "parentFolderId")
                                                        THEN site.parentFolderId ELSE 0]],
                reqs |-> id.reqs]
     ELSE IF ~Has(site, "tags") \/ Len(site.tags) = 0
     THEN IF ~Has(site, "objectId") /\ siteIndex = NoIndex
          THEN [err |-> TRUE, item |-> Undefined, reqs |-> <<>>]
          ELSE [err |-> FALSE,
                item |-> [name |-> "historySite",
                          objectId |-> id.objectId,
                          value |-> siteData],
                reqs |-> id.reqs]
     ELSE [err |-> FALSE, item |-> Undefined, reqs |-> <<>>]

adControlEnum(s) ==
  CASE s = "showBraveAds" -> 0
    [] s = "blockAds" -> 1
    [] s = "allowAdsAndTracking" -> 2
    [] OTHER -> UndefinedNum

cookieControlEnum(s) ==
  CASE s = "block3rdPartyCookie" -> 0
    [] s = "allowAllCookies" -> 1
    [] OTHER -> UndefinedNum

\* createSiteSettingsData(hostPattern, setting): [item, reqs]
createSiteSettingsData(hostPattern, setting, random) ==
  LET value == [f \in DOMAIN siteSettingDefaults |->
                  IF f = "adControl" /\ Has(setting, f) THEN adControlEnum(setting.adControl)
                  ELSE IF f = "cookieControl" /\ Has(setting, f)
                       THEN cookieControlEnum(setting.cookieControl)
                  ELSE IF Has(setting, f) THEN setting[f]
                  ELSE IF f = "hostPattern" THEN hostPattern
                  ELSE siteSettingDefaults[f]]
      id == ObjectIdOr(setting, SettingPath(hostPattern), random)
  IN [item |-> [name |-> "siteSetting", objectId |-> id.objectId, value |-> value],
      reqs |-> id.reqs]

\* the keys of appState.siteSettings, in the map's order
Hosts == <<"h1", "h2", "h3">>

\* JavaScript values as the channel delivers them
JsNum(n) == [t |-> "number", n |-> n]
JsStr(s) == [t |-> "string", s |-> s]
JsNull == [t |-> "null"]
JsBool(b) == [t |-> "boolean", b |-> b]
JsU8(bytes) == [t |-> "Uint8Array", bytes |-> bytes]
JsArr(elems) == [t |-> "Array", elems |-> elems]
JsObj(fields) == [t |-> "object", fields |-> fields]

\* Array.from(uint8Array)
ArrayFrom(bytes) == JsArr([i \in 1..Len(bytes) |-> JsNum(bytes[i])])

\* Object.assign({}, x): the own enumerable fields of x, none for null
ObjectAssign(x) == IF x.t = "object" THEN x.fields ELSE <<>>

\* deepArrayify(sourceObject)
RECURSIVE deepArrayify(_)
deepArrayify(sourceObject) ==
  LET object == ObjectAssign(sourceObject)
  IN JsObj([k \in DOMAIN object |->
              IF object[k].t = "Array" THEN object[k]
              ELSE IF object[k].t = "Uint8Array" THEN ArrayFrom(object[k].bytes)
              ELSE IF object[k].t \in {"object", "null"} THEN deepArrayify(object[k])
              ELSE object[k]])

\* a shallow copy that leaves typed arrays as they are
ipcSafeObjectShallow(object) == JsObj(ObjectAssign(object))

ipcSafeObject(object) == deepArrayify(object)

\* new Immutable.List(syncRecord.objectId): the bytes of a buffer or of an
\* array of numbers, the empty list for undefined
ObjectIdList(syncRecord) ==
  IF ~Has(syncRecord.fields, "objectId") THEN <<>>
  ELSE LET v == syncRecord.fields.objectId
       IN IF v.t = "Uint8Array" THEN v.bytes
          ELSE IF v.t = "Array" THEN [i \in 1..Len(v.elems) |-> v.elems[i].n]
          ELSE <<>>

\* findEntry on a list or on the hosts of a map: the first match, or None
RECURSIVE FindSite(_, _, _)
FindSite(list, i, objectId) ==
  IF i > Len(list) THEN None
  ELSE IF Has(list[i], "objectId") /\ list[i].objectId = objectId
  THEN Some([index |-> i - 1, host |-> "", value |-> list[i]])
  ELSE FindSite(list, i + 1, objectId)

RECURSIVE FindSetting(_, _, _, _)
FindSetting(map, hosts, k, objectId) ==
  IF k > Len(hosts) THEN None
  ELSE IF Has(map[hosts[k]], "objectId") /\ map[hosts[k]].objectId = objectId
  THEN Some([index |-> NoIndex, host |-> hosts[k], value |-> map[hosts[k]]])
  ELSE FindSetting(map, hosts, k + 1, objectId)

---------------------------------------------------------------------------
(* app/sync.js *)

Ok == [err |-> FALSE, out |-> <<>>, reqs |-> <<>>]
Throw(r) == [err |-> TRUE, out |-> <<>>, reqs |-> r]

\* the record sendSyncRecords makes of one item of data
SyncRecord(action, item) ==
  IF item = Undefined \/ ~Has(item, "name") \/ ~Has(item, "value")
  THEN Undefined
  ELSE (item.name :> item.value) @@
       [action |-> action, deviceId |-> deviceId[1], objectId |-> item.objectId]

\* sendSyncRecords without its deviceId check
sendSyncRecordsUnchecked(action, data) ==
  IF Len(data) = 0 \/ data[1] = Undefined
  THEN [err |-> data # <<>>, out |-> <<>>]
  ELSE [err |-> FALSE,
        out |-> <<[type |-> "SEND_SYNC_RECORDS",
                   category |-> CATEGORY_MAP[data[1].name],
                   records |-> [i \in 1..Len(data) |->
                                  (data[i].name :> data[i].value) @@
                                  [action |-> action, deviceId |-> deviceId,
                                   objectId |-> data[i].objectId]]]>>]

\* sendSyncRecords(sender, action, data): [err, out]
sendSyncRecords(action, data) ==
  IF deviceId = None
  THEN [err |-> TRUE, out |-> <<>>]
  ELSE IF Len(data) = 0
  THEN [err |-> FALSE, out |-> <<>>]
  ELSE IF data[1] = Undefined
  THEN [err |-> TRUE, out |-> <<>>]     \* TypeError reading data[0].name
  ELSE [err |-> FALSE,
        out |-> <<[type |-> "SEND_SYNC_RECORDS",
                   category |-> CATEGORY_MAP[data[1].name],
                   records |-> [i \in 1..Len(data) |-> SyncRecord(action, data[i])]]>>]

\* a builder's result handed to sendSyncRecords, as doAction does
SendBuilt(action, built) ==
  IF built.err THEN Throw(<<>>)
  ELSE LET s == sendSyncRecords(action, <<built.item>>)
       IN [err |-> s.err, out |-> s.out, reqs |-> built.reqs]

\* a doAction that takes items whether or not they carry an objectId
AcceptsAnyItem(item) == TRUE

\* action.item.get('objectId'): doAction only accepts items that have an
\* objectId set already
AcceptsItem(item) == Has(item, "objectId")

\* doAction(sender, action): [err, out, reqs]; random is what
\* crypto.randomBytes would return if a builder asked for a new id
doAction(action, random) ==
  IF action.item = None \/ ~action.toJS
  THEN Ok
  ELSE LET item == action.item[1]
           t == action.actionType
           site == createSiteData(item, NoIndex, random)
           setting == [err |-> FALSE] @@
                      createSiteSettingsData(action.hostPattern, item, random)
       IN IF ~AcceptsItem(item) THEN Ok
          ELSE CASE t = "SYNC_ADD_SITE" -> SendBuilt(CREATE, site)
                 [] t = "SYNC_UPDATE_SITE" -> SendBuilt(UPDATE, site)
                 [] t = "SYNC_REMOVE_SITE" -> SendBuilt(DELETE, site)
                 [] t = "SYNC_CLEAR_HISTORY" ->
                      [err |-> FALSE, reqs |-> <<>>,
                       out |-> <<[type |-> "DELETE_SYNC_CATEGORY",
                                  category |-> CATEGORY_MAP.historySite]>>]
                 [] t = "SYNC_ADD_SITE_SETTING" ->
                      IF isSyncable("siteSetting", item)
                      THEN SendBuilt(CREATE, setting) ELSE Ok
                 [] t = "SYNC_UPDATE_SITE_SETTING" ->
                      IF isSyncable("siteSetting", item)
                      THEN SendBuilt(UPDATE, setting) ELSE Ok
                 [] t = "SYNC_REMOVE_SITE_SETTING" -> SendBuilt(DELETE, setting)
                 [] t = "SYNC_CLEAR_SITE_SETTINGS" ->
                      [err |-> FALSE, reqs |-> <<>>,
                       out |-> <<[type |-> "DELETE_SYNC_SITE_SETTINGS"]>>]
                 [] OTHER -> Ok

\* one call and then the rest of a sequence of calls: a throw ends the
\* sequence, and the actions the store was asked for before it stay asked
Then(r, rest) ==
  IF r.err THEN Throw(r.reqs)
  ELSE [err |-> rest.err,
        out |-> IF rest.err THEN <<>> ELSE r.out \o rest.out,
        reqs |-> r.reqs \o rest.reqs]

\* appDispatcher.dispatch: every registered callback gets the action, in
\* registration order; a throw ends the dispatch
RECURSIVE RunCallbacks(_, _, _)
RunCallbacks(n, action, random) ==
  IF n = 0 THEN Ok
  ELSE Then(doAction(action, random), RunCallbacks(n - 1, action, random))

\* poll() of the closure of one onSyncReady call
FetchMessage(startAt) ==
  [type |-> "FETCH_SYNC_RECORDS", categories |-> categoryNames, startAt |-> startAt]

\* the paths onSyncReady may ask a new object id for
RandomSlots ==
  {SyncPath}
  \cup {SitePath(i - 1) :
          i \in {j \in 1..Len(sites) : /\ ~Has(sites[j], "objectId")
                                       /\ isSyncable("bookmark", sites[j])}}
  \cup {SettingPath(Hosts[k]) :
          k \in {j \in 1..Len(Hosts) :
                   /\ ~Has(siteSettings[Hosts[j]], "objectId")
                   /\ isSyncable("siteSetting", siteSettings[Hosts[j]])}}

\* what crypto.randomBytes returns for the object at path; an object that
\* carries an id draws no random bytes
RandomAt(random, path) ==
  IF path \in DOMAIN random THEN random[path] ELSE [i \in 1..IdLen |-> 1]

\* the sites.forEach of onSyncReady from site i on (i counts from 1, the
\* site's index in appState.sites is i - 1): [err, out, reqs]
RECURSIVE BackfillSites(_, _)
BackfillSites(i, random) ==
  IF i > Len(sites) THEN Ok
  ELSE IF ~Has(sites[i], "objectId") /\ isSyncable("bookmark", sites[i])
  THEN Then(SendBuilt(CREATE, createSiteData(sites[i], i - 1,
                                             RandomAt(random, SitePath(i - 1)))),
            BackfillSites(i + 1, random))
  ELSE BackfillSites(i + 1, random)

\* the site-settings part of onSyncReady: [err, out, reqs]

\* a site-settings backfill that leaves out the isSyncable filter
RECURSIVE SettingsDataUnfiltered(_, _)
SettingsDataUnfiltered(k, random) ==
  IF k > Len(Hosts) THEN <<>>
  ELSE <<createSiteSettingsData(Hosts[k], siteSettings[Hosts[k]],
                                RandomAt(random, SettingPath(Hosts[k])))>>
       \o SettingsDataUnfiltered(k + 1, random)

RECURSIVE SettingsData(_, _)
SettingsData(k, random) ==
  IF k > Len(Hosts) THEN <<>>
  ELSE IF isSyncable("siteSetting", siteSettings[Hosts[k]])
  THEN <<createSiteSettingsData(Hosts[k], siteSettings[Hosts[k]],
                                RandomAt(random, SettingPath(Hosts[k])))>>
       \o SettingsData(k + 1, random)
  ELSE SettingsData(k + 1, random)

RECURSIVE Flatten(_)
Flatten(ss) == IF ss = <<>> THEN <<>> ELSE Head(ss) \o Flatten(Tail(ss))

BackfillSettings(random) ==
  LET built == SettingsData(1, random)
      sent == sendSyncRecords(UPDATE, [k \in 1..Len(built) |-> built[k].item])
  IN [err |-> sent.err, out |-> sent.out,
      reqs |-> Flatten([k \in 1..Len(built) |-> built[k].reqs])]

\* onSyncReady(isFirstRun, e) up to the registration of the ipcMain
\* listeners: [err, out, reqs]
ReadySends(isFirstRun, random) ==
  LET id == newObjectId(SyncPath, RandomAt(random, SyncPath))
      device == IF isFirstRun
                THEN [reqs |-> id.reqs] @@
                     sendSyncRecords(CREATE, <<[name |-> "device",
                                                objectId |-> id.objectId,
                                                value |-> [name |-> "browser-laptop"]]>>)
                ELSE Ok
      bookmarks == BackfillSites(1, random)
      settings == BackfillSettings(random)
  IN IF device.err THEN Throw(device.reqs)
     ELSE IF bookmarks.err THEN Throw(device.reqs \o bookmarks.reqs)
     ELSE IF settings.err THEN Throw(device.reqs \o bookmarks.reqs \o settings.reqs)
     ELSE [err |-> FALSE,
           out |-> device.out \o bookmarks.out \o settings.out,
           reqs |-> device.reqs \o bookmarks.reqs \o settings.reqs]

Range(s) == {s[i] : i \in 1..Len(s)}

---------------------------------------------------------------------------
(* Steps *)

unchangedEngine == UNCHANGED <<initialState, deviceId, pollIntervalId, callbacks,
                               listeners, timers>>
unchangedStore == UNCHANGED <<sites, siteSettings, sync, pending>>
unchangedClock == UNCHANGED <<clock, stopped, resolution>>

\* ipcMain GET_INIT_DATA listener of init()
GetInitData ==
  /\ deviceId' = initialState.deviceId
  /\ op' = [type |-> "GET_INIT_DATA"]
  /\ out' = <<[type |-> "GOT_INIT_DATA", seed |-> initialState.seed,
               deviceId |-> initialState.deviceId]>>
  /\ reqs' = <<>>
  /\ raised' = FALSE
  /\ UNCHANGED <<initialState, pollIntervalId, callbacks, listeners, timers>>
  /\ unchangedClock
  /\ unchangedStore

\* appStore's handling of appActions.saveSyncInitData(seed, deviceId, lastFetchTimestamp)
saveSyncInitData(state, seed, newDeviceId, lastFetchTimestamp) ==
  [seed |-> IF seed = None THEN state.seed ELSE seed,
   deviceId |-> IF newDeviceId = None THEN state.deviceId ELSE newDeviceId,
   lastFetchTimestamp |-> IF lastFetchTimestamp = None THEN state.lastFetchTimestamp
                          ELSE lastFetchTimestamp[1]]

\* new Immutable.List(x): the empty list for null
ImmutableList(x) == IF x = None THEN Some(<<>>) ELSE x

\* ipcMain SAVE_INIT_DATA listener of init()
SaveInitData(seed, newDeviceId) ==
  /\ deviceId' = IF deviceId = None /\ newDeviceId # None THEN newDeviceId ELSE deviceId
  /\ sync' = saveSyncInitData(sync, ImmutableList(seed), ImmutableList(newDeviceId), None)
  /\ op' = [type |-> "SAVE_INIT_DATA", seed |-> seed, deviceId |-> newDeviceId]
  /\ out' = <<>>
  /\ reqs' = <<>>
  /\ raised' = FALSE
  /\ UNCHANGED <<initialState, pollIntervalId, callbacks, listeners, timers,
                 sites, siteSettings, pending>>
  /\ unchangedClock

\* ipcMain SYNC_READY listener: onSyncReady(isFirstRun, e)
SyncReady(random) ==
  LET isFirstRun == initialState.seed = None /\ initialState.deviceId = None
      sends == ReadySends(isFirstRun, random)
      startAt == sync.lastFetchTimestamp
  IN /\ callbacks < MaxReady
     /\ callbacks' = callbacks + 1
     /\ op' = [type |-> "SYNC_READY", isFirstRun |-> isFirstRun]
     /\ reqs' = sends.reqs
     /\ pending' = pending \cup Range(sends.reqs)
     /\ raised' = sends.err
     /\ IF sends.err
        THEN /\ out' = <<>>
             /\ UNCHANGED <<listeners, timers, pollIntervalId, sync>>
        ELSE /\ listeners' = listeners + 1
             \* poll(), then setInterval(poll, config.fetchInterval)
             /\ out' = sends.out \o <<FetchMessage(startAt)>>
             /\ sync' = saveSyncInitData(sync, None, None, Some(now))
             /\ timers' = Append(timers, [t0 |-> now, startAt |-> now,
                                          next |-> now + FetchInterval, live |-> TRUE])
             /\ pollIntervalId' = Some(Len(timers) + 1)
     /\ stopped' = FALSE
     /\ UNCHANGED <<initialState, deviceId, clock, sites, siteSettings, resolution>>

\* poll() persisting the watermark it sent instead of the time of the firing
PollStale(i) ==
  /\ timers[i].live
  /\ timers[i].next = clock
  /\ out' = <<FetchMessage(timers[i].startAt)>>
  /\ timers' = [timers EXCEPT ![i].next = @ + FetchInterval]
  /\ sync' = saveSyncInitData(sync, None, None, Some(timers[i].startAt))
  /\ op' = [type |-> "poll", timer |-> i]
  /\ reqs' = <<>>
  /\ raised' = FALSE
  /\ UNCHANGED <<initialState, deviceId, pollIntervalId, callbacks, listeners,
                 sites, siteSettings, pending>>
  /\ unchangedClock

\* a timer made by setInterval(poll, config.fetchInterval) fires
Poll(i) ==
  /\ timers[i].live
  /\ timers[i].next = clock
  /\ out' = <<FetchMessage(timers[i].startAt)>>
  /\ timers' = [timers EXCEPT ![i].startAt = now, ![i].next = @ + FetchInterval]
  /\ sync' = saveSyncInitData(sync, None, None, Some(now))
  /\ op' = [type |-> "poll", timer |-> i]
  /\ reqs' = <<>>
  /\ raised' = FALSE
  /\ UNCHANGED <<initialState, deviceId, pollIntervalId, callbacks, listeners,
                 sites, siteSettings, pending>>
  /\ unchangedClock

\* a stop() that also drops the dispatcher callbacks and the ipc listeners
StopEverything ==
  /\ timers' = IF pollIntervalId = None THEN timers
               ELSE [timers EXCEPT ![pollIntervalId[1]].live = FALSE]
  /\ callbacks' = 0
  /\ listeners' = 0
  /\ stopped' = TRUE
  /\ op' = [type |-> "stop"]
  /\ out' = <<>>
  /\ reqs' = <<>>
  /\ raised' = FALSE
  /\ UNCHANGED <<initialState, deviceId, pollIntervalId, clock, resolution>>
  /\ unchangedStore

\* module.exports.stop: clearInterval(pollIntervalId)
Stop ==
  /\ timers' = IF pollIntervalId = None THEN timers
               ELSE [timers EXCEPT ![pollIntervalId[1]].live = FALSE]
  /\ stopped' = TRUE
  /\ op' = [type |-> "stop"]
  /\ out' = <<>>
  /\ reqs' = <<>>
  /\ raised' = FALSE
  /\ UNCHANGED <<initialState, deviceId, pollIntervalId, callbacks, listeners, clock,
                 resolution>>
  /\ unchangedStore

\* one second passes; a timer that is due fires first
Tick ==
  /\ clock < MaxTime
  /\ \A i \in 1..Len(timers) : timers[i].live => timers[i].next > clock
  /\ clock' = clock + 1
  /\ op' = [type |-> "tick"]
  /\ out' = <<>>
  /\ reqs' = <<>>
  /\ raised' = FALSE
  /\ UNCHANGED <<stopped, resolution>>
  /\ unchangedEngine
  /\ unchangedStore

\* getObjectById(objectId, category): [err, entry]
getObjectById(objectId, category) ==
  IF category \in {"BOOKMARKS", "HISTORY_SITES"}
  THEN [err |-> FALSE, entry |-> FindSite(sites, 1, objectId)]
  ELSE IF category = "PREFERENCES"
  THEN [err |-> FALSE, entry |-> FindSetting(siteSettings, Hosts, 1, objectId)]
  ELSE [err |-> TRUE, entry |-> None]

\* getExistingObject(categoryName, syncRecord): [err, object], object nullable
\* the sync record getExistingObject makes of what a builder returned
ExistingRecord(built) ==
  IF built.err \/ built.item = Undefined      \* TypeError reading item.name
  THEN [err |-> TRUE, object |-> None, reqs |-> built.reqs]
  ELSE [err |-> FALSE,
        object |-> Some((built.item.name :> built.item.value) @@
                        [action |-> CREATE, deviceId |-> sync.deviceId,
                         objectData |-> built.item.name,
                         objectId |-> built.item.objectId]),
        reqs |-> built.reqs]

\* getExistingObject from the entry getObjectById found
ExistingOf(categoryName, found, random) ==
  IF found.err THEN [err |-> TRUE, object |-> None, reqs |-> <<>>]
  ELSE IF found.entry = None THEN [err |-> FALSE, object |-> None, reqs |-> <<>>]
  ELSE IF categoryName = "PREFERENCES"
  THEN ExistingRecord([err |-> FALSE] @@
                      createSiteSettingsData(found.entry[1].host,
                                             found.entry[1].value, random))
  ELSE ExistingRecord(createSiteData(found.entry[1].value, NoIndex, random))

getExistingObject(categoryName, syncRecord, random) ==
  ExistingOf(categoryName, getObjectById(ObjectIdList(syncRecord), categoryName), random)

\* the records.map of the GET_EXISTING_OBJECTS listener: [err, pairs, reqs]
PairThen(record, existing, rest) ==
  IF existing.err THEN [err |-> TRUE, pairs |-> <<>>, reqs |-> existing.reqs]
  ELSE [err |-> rest.err,
        pairs |-> IF rest.err THEN <<>>
                  ELSE <<[record |-> ipcSafeObject(record),
                          existing |-> existing.object]>> \o rest.pairs,
        reqs |-> existing.reqs \o rest.reqs]

RECURSIVE ExistingPairs(_, _, _, _)
ExistingPairs(categoryName, records, i, random) ==
  IF i > Len(records) THEN [err |-> FALSE, pairs |-> <<>>, reqs |-> <<>>]
  ELSE PairThen(records[i],
                getExistingObject(categoryName, records[i], random),
                ExistingPairs(categoryName, records, i + 1, random))

\* e.sender.send(RESOLVE_SYNC_RECORDS, categoryName, recordsAndExistingObjects)
Resolve(categoryName, r) ==
  IF r.err THEN Throw(r.reqs)
  ELSE [err |-> FALSE, reqs |-> r.reqs,
        out |-> <<[type |-> "RESOLVE_SYNC_RECORDS", category |-> categoryName,
                   pairs |-> r.pairs]>>]

\* one GET_EXISTING_OBJECTS listener of onSyncReady; records is nullable
onGetExistingObjects(categoryName, records, random) ==
  IF records = None THEN Throw(<<>>)     \* TypeError reading records.length
  ELSE IF ~Includes(categoryNames, categoryName) \/ Len(records[1]) = 0 THEN Ok
  ELSE Resolve(categoryName, ExistingPairs(categoryName, records[1], 1, random))

\* ipcMain.emit: every registered listener gets the message, in
\* registration order; a throw ends the delivery
RECURSIVE RunListeners(_, _, _, _)
RunListeners(n, categoryName, records, random) ==
  IF n = 0 THEN Ok
  ELSE Then(onGetExistingObjects(categoryName, records, random),
            RunListeners(n - 1, categoryName, records, random))

---------------------------------------------------------------------------
(* Inputs *)

IdOf(b) == [i \in 1..IdLen |-> b]

Bookmark == [tags |-> <<"bookmark">>, location |-> "a"]
Folder == [tags |-> <<"bookmark-folder">>, location |-> "b", folderId |-> 1]
History == [location |-> "c", lastAccessedTime |-> 1]
Pinned == [tags |-> <<"pinned">>, location |-> "d"]

WithId(obj, id) == setObjectId(obj, id)

\* items of site events
SiteItems ==
  {Bookmark, History} \cup
  {WithId(s, IdOf(1)) :
     s \in {Bookmark, Folder, History, Pinned,
            [tags |-> <<>>, location |-> "e"],
            [tags |-> <<"bookmark", "bookmark-folder">>, location |-> "f"]}}

\* items of site-setting events
SettingItems ==
  {[adControl |-> "blockAds"],
   [objectId |-> IdOf(1)],
   [objectId |-> IdOf(1), adControl |-> "blockAds", noScript |-> TRUE],
   [objectId |-> IdOf(1), cookieControl |-> "allowAllCookies"],
   [objectId |-> IdOf(1), adControl |-> "blockEverything"],
   [objectId |-> IdOf(1), cookieControl |-> "blockAllCookies", noScript |-> TRUE]}

SiteEvents == {"SYNC_ADD_SITE", "SYNC_UPDATE_SITE", "SYNC_REMOVE_SITE", "SYNC_CLEAR_HISTORY"}
SettingEvents == {"SYNC_ADD_SITE_SETTING", "SYNC_UPDATE_SITE_SETTING",
                  "SYNC_REMOVE_SITE_SETTING", "SYNC_CLEAR_SITE_SETTINGS"}

Event(t, item, toJS, h) == [actionType |-> t, item |-> item, toJS |-> toJS, hostPattern |-> h]

\* the actions the dispatcher delivers
Events ==
  {Event(t, Some(i), TRUE, "") : t \in SiteEvents, i \in SiteItems} \cup
  {Event(t, Some(i), TRUE, "h1") : t \in SettingEvents, i \in SettingItems} \cup
  {Event("SYNC_ADD_SITE", None, FALSE, ""),
   Event("SYNC_CLEAR_HISTORY", None, FALSE, ""),
   Event("SYNC_CLEAR_SITE_SETTINGS", None, FALSE, ""),
   Event("SYNC_UPDATE_SITE", Some(WithId(Bookmark, IdOf(1))), FALSE, ""),
   Event("APP_SET_OBJECT_ID", None, FALSE, "")}

\* records of GET_EXISTING_OBJECTS
Prefix(id) == SubSeq(id, 1, Len(id) - 1)
Records ==
  {JsObj([objectId |-> JsU8(IdOf(1)), action |-> JsNum(CREATE)]),
   JsObj([objectId |-> ArrayFrom(IdOf(2)), action |-> JsNum(UPDATE)]),
   JsObj([objectId |-> JsU8(Prefix(IdOf(1)))]),
   JsObj([objectId |-> JsU8(IdOf(1) \o <<1>>)]),
   JsObj([action |-> JsNum(DELETE)])}

RecordLists ==
  {None, Some(<<>>)} \cup {Some(<<r>>) : r \in Records}
  \cup {Some(<<JsObj([objectId |-> JsU8(Prefix(IdOf(1)))]),
               JsObj([objectId |-> JsU8(IdOf(1)), action |-> JsNum(CREATE)])>>)}

DeviceIds == {<<1, 1>>, <<2, 2>>}

\* a buffer of crypto.randomBytes(16) whose bytes all differ
Bytes16 == [i \in 1..IdLen |-> i]

\* a record as the sync client resolved it, made on another device
Resolved(action, objectId, name, value) ==
  (name :> value) @@ [action |-> action, deviceId |-> <<2, 2>>, objectId |-> objectId]

BookmarkValue(location, isFolder) ==
  [site |-> [siteDataDefaults EXCEPT !.location = location],
   isFolder |-> isFolder, folderId |-> 0, parentFolderId |-> 0]

\* records of RESOLVED_SYNC_RECORDS
ResolvedRecords ==
  {Resolved(a, id, "bookmark", BookmarkValue("n", FALSE)) :
     a \in {CREATE, UPDATE, DELETE}, id \in {IdOf(1), Bytes16}}
  \cup {Resolved(CREATE, Bytes16, "bookmark", BookmarkValue("m", TRUE)),
        Resolved(UPDATE, IdOf(2), "historySite",
                 [siteDataDefaults EXCEPT !.location = "c"]),
        Resolved(UPDATE, IdOf(2), "siteSetting", siteSettingDefaults)}

\* the messages of a conversation about the bookmark folder and about an
\* object made on another device
ClientEvents ==
  {Event("SYNC_UPDATE_SITE", Some(WithId(Folder, IdOf(1))), TRUE, ""),
   Event("SYNC_ADD_SITE", Some(Bookmark), TRUE, "")}

ClientRecordLists ==
  {Some(<<JsObj([objectId |-> JsU8(id), action |-> JsNum(UPDATE)])>>) :
     id \in {IdOf(1), Bytes16}}

ClientResolvedLists ==
  {None,
   Some(<<Resolved(UPDATE, IdOf(1), "bookmark", BookmarkValue("n", FALSE))>>),
   Some(<<Resolved(DELETE, IdOf(1), "bookmark", BookmarkValue("n", FALSE))>>),
   Some(<<Resolved(CREATE, Bytes16, "bookmark", BookmarkValue("n", FALSE))>>)}

ResolvedLists ==
  {None, Some(<<>>)} \cup {Some(<<r>>) : r \in ResolvedRecords}
                     \cup {Some(<<r, r>>) : r \in ResolvedRecords}

\* field values of the records handed to ipcSafeObject
IpcValues ==
  {JsNum(1), JsStr("a"), JsNull, JsBool(TRUE),
   JsU8(Bytes16), JsU8(IdOf(2)), JsU8(<<1, 2>>),
   ArrayFrom(Bytes16), JsArr(<<JsU8(Bytes16)>>),
   JsArr(<<JsObj([objectId |-> JsU8(Bytes16)])>>),
   JsObj([objectId |-> JsU8(Bytes16)]),
   JsObj([site |-> JsObj([objectId |-> JsU8(Bytes16), title |-> JsStr("t")])])}

IpcRecords == {JsObj([objectId |-> a, value |-> b]) : a \in IpcValues, b \in IpcValues}

---------------------------------------------------------------------------
(* Steps of the dispatcher, the store and the resolver *)

\* what a handler that returned r leaves behind: the messages sent, the
\* actions handed to the store, and whether it threw
Effects(r) ==
  /\ out' = r.out
  /\ reqs' = r.reqs
  /\ pending' = pending \cup Range(r.reqs)
  /\ raised' = r.err

\* appDispatcher.dispatch(action), as the registered doAction callbacks see it
DispatchStep(action, random) ==
  /\ op' = [type |-> "dispatch", action |-> action]
  /\ Effects(RunCallbacks(callbacks, action, random))
  /\ unchangedEngine
  /\ UNCHANGED <<clock, stopped, sites, siteSettings, sync>>

Dispatch(action, random) ==
  /\ DispatchStep(action, random)
  /\ UNCHANGED resolution

\* appStore applies one setObjectId action: the object at objectPath gets
\* the id unless it already carries one
ApplySetObjectId(req) ==
  LET path == req.objectPath
  IN /\ req \in pending
     /\ pending' = pending \ {req}
     /\ sites' = IF path.coll = "sites" /\ path.index + 1 \in 1..Len(sites)
                 THEN [sites EXCEPT ![path.index + 1] = setObjectId(@, req.objectId)]
                 ELSE sites
     /\ siteSettings' = IF path.coll = "siteSettings" /\ path.host \in DOMAIN siteSettings
                        THEN [siteSettings EXCEPT ![path.host] = setObjectId(@, req.objectId)]
                        ELSE siteSettings
     /\ op' = [type |-> "store", req |-> req]
     /\ out' = <<>>
     /\ reqs' = <<>>
     /\ raised' = FALSE
     /\ unchangedEngine
     /\ UNCHANGED <<clock, stopped, sync, resolution>>

\* ipcMain GET_EXISTING_OBJECTS message
GetExistingObjectsStep(categoryName, records, random) ==
  /\ op' = [type |-> "GET_EXISTING_OBJECTS", category |-> categoryName,
            records |-> records]
  /\ Effects(RunListeners(listeners, categoryName, records, random))
  /\ unchangedEngine
  /\ UNCHANGED <<clock, stopped, sites, siteSettings, sync>>

GetExistingObjects(categoryName, records, random) ==
  /\ GetExistingObjectsStep(categoryName, records, random)
  /\ UNCHANGED resolution

\* the index in list of the site that carries objectId, 0 when none does
RECURSIVE IndexOfSite(_, _, _)
IndexOfSite(list, i, objectId) ==
  IF i > Len(list) THEN 0
  ELSE IF Has(list[i], "objectId") /\ list[i].objectId = objectId THEN i
  ELSE IndexOfSite(list, i + 1, objectId)

\* list without its i-th element
RemoveAt(list, i) == SubSeq(list, 1, i - 1) \o SubSeq(list, i + 1, Len(list))

\* the local site a resolved bookmark or historySite record stands for
SiteOfRecord(record) ==
  IF Has(record, "bookmark")
  THEN record.bookmark.site @@
       [objectId |-> record.objectId,
        tags |-> IF record.bookmark.isFolder THEN <<"bookmark-folder">>
                 ELSE <<"bookmark">>]
  ELSE record.historySite @@ [objectId |-> record.objectId]

\* an applySyncRecord that adds the record's site without looking for it
applySyncRecordAppend(list, record) ==
  IF ~Has(record, "bookmark") /\ ~Has(record, "historySite") THEN list
  ELSE IF record.action = DELETE
  THEN LET i == IndexOfSite(list, 1, record.objectId)
       IN IF i = 0 THEN list ELSE RemoveAt(list, i)
  ELSE Append(list, SiteOfRecord(record))

\* syncUtil.applySyncRecord(record) on the site collection: an upsert
\* keyed by objectId, a DELETE removes the object
applySyncRecord(list, record) ==
  IF ~Has(record, "bookmark") /\ ~Has(record, "historySite") THEN list
  ELSE LET i == IndexOfSite(list, 1, record.objectId)
       IN IF record.action = DELETE
          THEN IF i = 0 THEN list ELSE RemoveAt(list, i)
          ELSE IF i = 0 THEN Append(list, SiteOfRecord(record))
          ELSE [list EXCEPT ![i] = SiteOfRecord(record)]

\* for (let record of records) { syncUtil.applySyncRecord(record) }
RECURSIVE ApplyRecords(_, _, _)
ApplyRecords(list, records, i) ==
  IF i > Len(records) THEN list
  ELSE ApplyRecords(applySyncRecord(list, records[i]), records, i + 1)

\* a listener that holds back a decision made from a snapshot older than a
\* record sent since for the same object
onResolvedSyncRecordsFresh(list, records) ==
  IF records = None \/ Len(records[1]) = 0 THEN list
  ELSE IF \E i \in 1..Len(records[1]) :
            [objectId |-> records[1][i].objectId, phase |-> "stale"] \in resolution
  THEN list
  ELSE ApplyRecords(list, records[1], 1)

\* one RESOLVED_SYNC_RECORDS listener of onSyncReady; records is nullable
onResolvedSyncRecords(list, records) ==
  IF records = None \/ Len(records[1]) = 0 THEN list
  ELSE ApplyRecords(list, records[1], 1)

\* ipcMain delivering the message to each of n listeners
RECURSIVE RunResolved(_, _, _)
RunResolved(n, list, records) ==
  IF n = 0 THEN list
  ELSE RunResolved(n - 1, onResolvedSyncRecords(list, records), records)

\* ipcMain RESOLVED_SYNC_RECORDS message
ResolvedSyncRecordsStep(categoryName, records) ==
  /\ op' = [type |-> "RESOLVED_SYNC_RECORDS", category |-> categoryName,
            records |-> records]
  /\ sites' = RunResolved(listeners, sites, records)
  /\ out' = <<>>
  /\ reqs' = <<>>
  /\ raised' = FALSE
  /\ unchangedEngine
  /\ UNCHANGED <<clock, stopped, siteSettings, sync, pending>>

ResolvedSyncRecords(categoryName, records) ==
  /\ ResolvedSyncRecordsStep(categoryName, records)
  /\ UNCHANGED resolution

\* the objectIds of the records sent in SEND_SYNC_RECORDS messages
SentIds(msgs) ==
  {msgs[k].records[i].objectId :
     <<k, i>> \in {<<k, i>> \in (1..Len(msgs)) \X (1..Len(sites) + Len(Hosts) + 1) :
                     /\ msgs[k].type = "SEND_SYNC_RECORDS"
                     /\ i <= Len(msgs[k].records)
                     /\ Has(msgs[k].records[i], "objectId")}}

\* the objectIds of the existing objects answered in RESOLVE_SYNC_RECORDS
\* messages
AnsweredIds(msgs) ==
  {msgs[k].pairs[i].existing[1].objectId :
     <<k, i>> \in {<<k, i>> \in (1..Len(msgs)) \X (1..2) :
                     /\ msgs[k].type = "RESOLVE_SYNC_RECORDS"
                     /\ i <= Len(msgs[k].pairs)
                     /\ msgs[k].pairs[i].existing # None}}

\* the objectIds of the records a RESOLVED_SYNC_RECORDS listener applies
AppliedIds(records) ==
  IF listeners = 0 \/ records = None THEN {}
  ELSE {records[1][i].objectId : i \in 1..Len(records[1])}

\* the sync client got the local objects with these ids to decide on
Answered(res, ids) ==
  {e \in res : e.objectId \notin ids}
  \cup {[objectId |-> x, phase |-> "snapshot"] : x \in ids}

\* records of local events on the objects with these ids were sent
Mutated(res, ids) ==
  {IF e.objectId \in ids /\ e.phase = "snapshot" THEN [e EXCEPT !.phase = "stale"]
   ELSE e : e \in res}

\* the decisions on the objects with these ids were applied
Applied(res, ids) ==
  {IF e.objectId \in ids /\ e.phase = "stale" THEN [e EXCEPT !.phase = "appliedStale"]
   ELSE e : e \in {x \in res : ~(x.objectId \in ids /\ x.phase = "snapshot")}}

\* the three steps of a conversation with the sync client, which keeps what
\* it was answered until its decision is applied
ClientDispatch(action, random) ==
  /\ DispatchStep(action, random)
  /\ resolution' = Mutated(resolution, SentIds(out'))

ClientGetExistingObjects(categoryName, records, random) ==
  /\ GetExistingObjectsStep(categoryName, records, random)
  /\ resolution' = Answered(resolution, AnsweredIds(out'))

ClientResolvedSyncRecords(categoryName, records) ==
  /\ ResolvedSyncRecordsStep(categoryName, records)
  /\ resolution' = Applied(resolution, AppliedIds(records))

---------------------------------------------------------------------------
(* The engine *)

Init ==
  /\ initialState \in {[seed |-> None, deviceId |-> None],
                       [seed |-> Some(<<7>>), deviceId |-> Some(<<1, 1>>)]}
  /\ deviceId = None
  /\ pollIntervalId = None
  /\ callbacks = 0
  /\ listeners = 0
  /\ timers = <<>>
  /\ clock = 1
  /\ sites = <<WithId(Folder, IdOf(1)), History, Pinned, Bookmark>>
  /\ siteSettings = [h \in Range(Hosts) |->
                       IF h = "h3" THEN [custom |-> TRUE]
                       ELSE IF h = "h1" THEN [adControl |-> "blockAds"]
                       ELSE [objectId |-> IdOf(2), noScript |-> TRUE]]
  /\ sync = [seed |-> initialState.seed, deviceId |-> initialState.deviceId,
             lastFetchTimestamp |-> 0]
  /\ pending = {}
  /\ op = [type |-> "init"]
  /\ out = <<>>
  /\ reqs = <<>>
  /\ raised = FALSE
  /\ stopped = FALSE
  /\ resolution = {}

Seed == Some(<<7>>)

Handshake ==
  \/ GetInitData
  \/ \E d \in DeviceIds : SaveInitData(Seed, Some(d))

\* the actions and records every specification delivers
BasicEvents ==
  {Event("SYNC_ADD_SITE", Some(WithId(Bookmark, IdOf(1))), TRUE, ""),
   Event("SYNC_ADD_SITE", Some(Bookmark), TRUE, "")}

BasicRecordLists == {Some(<<JsObj([objectId |-> JsU8(IdOf(1)), action |-> JsNum(CREATE)])>>)}

\* the whole engine; crypto.randomBytes returns one value
Next ==
  \/ Handshake
  \/ \E random \in [RandomSlots -> {IdOf(1)}] : SyncReady(random)
  \/ \E i \in 1..Len(timers) : Poll(i)
  \/ Stop
  \/ Tick
  \/ \E action \in BasicEvents : Dispatch(action, IdOf(1))
  \/ \E req \in pending : ApplySetObjectId(req)
  \/ \E rs \in BasicRecordLists : GetExistingObjects("BOOKMARKS", rs, IdOf(1))

Spec == Init /\ [][Next]_vars

\* the dispatcher with every kind of action; the wall clock stands still
NextDispatch ==
  \/ Handshake
  \/ \E random \in [RandomSlots -> {IdOf(1)}] : SyncReady(random)
  \/ \E action \in Events : Dispatch(action, IdOf(1))

SpecDispatch == Init /\ [][NextDispatch]_vars

\* object ids: crypto.randomBytes returns any of RandomIds; the wall clock
\* stands still
NextIds ==
  \/ Handshake
  \/ \E random \in [RandomSlots -> RandomIds] : SyncReady(random)
  \/ \E action \in BasicEvents, random \in RandomIds : Dispatch(action, random)
  \/ \E req \in pending : ApplySetObjectId(req)
  \/ \E rs \in BasicRecordLists, random \in RandomIds :
       GetExistingObjects("BOOKMARKS", rs, random)

SpecIds == Init /\ [][NextIds]_vars

\* the resolver with every kind of GET_EXISTING_OBJECTS message; the wall
\* clock stands still
NextResolve ==
  \/ Handshake
  \/ \E random \in [RandomSlots -> {IdOf(1)}] : SyncReady(random)
  \/ \E req \in pending : ApplySetObjectId(req)
  \/ \E c \in Range(categoryNames) \cup {"DEVICES"}, rs \in RecordLists :
       GetExistingObjects(c, rs, IdOf(1))

SpecResolve == Init /\ [][NextResolve]_vars

\* ipcSafeObject on its own: a record is made, then converted for the ipc
\* channel, and the result may be converted again
InitIpc ==
  /\ initialState = [seed |-> None, deviceId |-> None]
  /\ deviceId = None
  /\ pollIntervalId = None
  /\ callbacks = 0
  /\ listeners = 0
  /\ timers = <<>>
  /\ clock = 1
  /\ sites = <<>>
  /\ siteSettings = [h \in Range(Hosts) |-> [noScript |-> TRUE]]
  /\ sync = [seed |-> None, deviceId |-> None, lastFetchTimestamp |-> 0]
  /\ pending = {}
  /\ \E r \in IpcRecords : op = [type |-> "record", result |-> r]
  /\ out = <<>>
  /\ reqs = <<>>
  /\ raised = FALSE
  /\ stopped = FALSE
  /\ resolution = {}

IpcSafe ==
  /\ op.type \in {"record", "ipcSafeObject"}
  /\ op' = [type |-> "ipcSafeObject", object |-> op.result,
            result |-> ipcSafeObject(op.result)]
  /\ UNCHANGED <<out, reqs, raised>>
  /\ unchangedEngine
  /\ unchangedStore
  /\ unchangedClock

NextIpc == IpcSafe

SpecIpc == InitIpc /\ [][NextIpc]_vars

\* the fields a site setting may have: those of the schema, objectId, and
\* one the schema does not know
SettingFields == DOMAIN siteSettingDefaults \cup {"objectId", "custom"}

MaxFields == 2

\* site settings with at most MaxFields fields
SettingMaps ==
  {[f \in fs |-> TRUE] : fs \in {x \in SUBSET SettingFields : Cardinality(x) <= MaxFields}}

\* isSyncable on its own: an item is made, then asked about
InitSyncable ==
  /\ initialState = [seed |-> None, deviceId |-> None]
  /\ deviceId = None
  /\ pollIntervalId = None
  /\ callbacks = 0
  /\ listeners = 0
  /\ timers = <<>>
  /\ clock = 1
  /\ sites = <<>>
  /\ siteSettings = [h \in Range(Hosts) |-> [noScript |-> TRUE]]
  /\ sync = [seed |-> None, deviceId |-> None, lastFetchTimestamp |-> 0]
  /\ pending = {}
  /\ \E item \in SettingMaps : op = [type |-> "item", item |-> item]
  /\ out = <<>>
  /\ reqs = <<>>
  /\ raised = FALSE
  /\ stopped = FALSE
  /\ resolution = {}

IsSyncable(type) ==
  /\ op.type = "item"
  /\ op' = [type |-> "isSyncable", kind |-> type, item |-> op.item,
            result |-> isSyncable(type, op.item)]
  /\ UNCHANGED <<out, reqs, raised>>
  /\ unchangedEngine
  /\ unchangedStore
  /\ unchangedClock

NextSyncable == \E type \in {"siteSetting", "historySite"} : IsSyncable(type)

SpecSyncable == InitSyncable /\ [][NextSyncable]_vars

\* the engine and the records the sync client resolved; the wall clock
\* stands still
NextApply ==
  \/ Handshake
  \/ \E random \in [RandomSlots -> {IdOf(1)}] : SyncReady(random)
  \/ \E rs \in ResolvedLists : ResolvedSyncRecords("BOOKMARKS", rs)

SpecApply == Init /\ [][NextApply]_vars

\* the engine in conversation with the sync client: local events, requests
\* for existing objects, resolved records, and stop(); the wall clock
\* stands still
NextClient ==
  \/ Handshake
  \/ \E random \in [RandomSlots -> {IdOf(1)}] : SyncReady(random)
  \/ Stop
  \/ \E action \in ClientEvents : ClientDispatch(action, IdOf(1))
  \/ \E rs \in ClientRecordLists : ClientGetExistingObjects("BOOKMARKS", rs, IdOf(1))
  \/ \E rs \in ClientResolvedLists : ClientResolvedSyncRecords("BOOKMARKS", rs)

SpecClient == Init /\ [][NextClient]_vars

---------------------------------------------------------------------------
(* Properties *)

Sent(type) == {k \in 1..Len(out) : out[k].type = type}

\* whether doAction, given this action, gets to call sendSyncRecords
CallsSend(action) ==
  /\ action.item # None
  /\ action.toJS
  /\ Has(action.item[1], "objectId")
  /\ \/ action.actionType \in {"SYNC_ADD_SITE", "SYNC_UPDATE_SITE", "SYNC_REMOVE_SITE",
                                "SYNC_REMOVE_SITE_SETTING"}
     \/ /\ action.actionType \in {"SYNC_ADD_SITE_SETTING", "SYNC_UPDATE_SITE_SETTING"}
        /\ isSyncable("siteSetting", action.item[1])

\* the last step was a call of sendSyncRecords: onSyncReady always makes
\* one, a dispatch makes one when a callback is registered and doAction
\* gets that far
SendAttempted ==
  \/ op.type = "SYNC_READY"
  \/ op.type = "dispatch" /\ callbacks > 0 /\ CallsSend(op.action)

\* C1: no SEND_SYNC_RECORDS message is sent while deviceId is null: a call
\* of sendSyncRecords with deviceId unset throws and sends nothing, and
\* every record of every SEND_SYNC_RECORDS message sent carries the
\* engine's deviceId, which is not null.
C1_NoSendWithoutDeviceId ==
  /\ \A k \in Sent("SEND_SYNC_RECORDS") :
       /\ deviceId # None
       /\ \A i \in 1..Len(out[k].records) :
            /\ Has(out[k].records[i], "deviceId")
            /\ out[k].records[i].deviceId = deviceId[1]
  /\ (SendAttempted /\ deviceId = None) => (raised /\ out = <<>>)

\* a dispatched add-site action reached sendSyncRecords while deviceId was null
C1_Witness ==
  /\ op.type = "dispatch"
  /\ SendAttempted
  /\ deviceId = None
  /\ raised

\* C2: once deviceId is set it never changes and never returns to null,
\* whatever GET_INIT_DATA, SAVE_INIT_DATA and READY messages follow.
C2_DeviceIdImmutable == [][deviceId # None => deviceId' = deviceId]_vars

\* the last firing time the timer's schedule allows at the current clock
LastDue(i) == timers[i].t0 + ((clock - timers[i].t0) \div FetchInterval) * FetchInterval

\* C6: a READY handled with deviceId set at time t0 fires the poll once at
\* once, and the timer it starts fires at t0 + k * FetchInterval for every
\* k >= 1 while it is live; each firing sends one FETCH_SYNC_RECORDS for
\* all category names and leaves the persisted watermark equal to the
\* time of that firing.
C6_PollSchedule ==
  /\ (op.type = "SYNC_READY" /\ ~raised) =>
       /\ Cardinality(Sent("FETCH_SYNC_RECORDS")) = 1
       /\ out[Len(out)].type = "FETCH_SYNC_RECORDS"
       /\ out[Len(out)].categories = categoryNames
       /\ timers[Len(timers)].t0 = clock
       /\ sync.lastFetchTimestamp = clock
  /\ op.type = "poll" =>
       /\ Len(out) = 1
       /\ out[1].type = "FETCH_SYNC_RECORDS"
       /\ out[1].categories = categoryNames
       /\ \E k \in 1..MaxTime : clock = timers[op.timer].t0 + k * FetchInterval
       /\ sync.lastFetchTimestamp = clock
  /\ \A i \in 1..Len(timers) :
       timers[i].live => (timers[i].startAt = LastDue(i) \/ timers[i].next = clock)

\* the first interval firing of a timer
C6_Witness ==
  /\ op.type = "poll"
  /\ clock = timers[op.timer].t0 + FetchInterval
  /\ sync.lastFetchTimestamp = clock

\* C6 as stated: after every READY the poll fires once at once
C6_AfterEveryReady ==
  op.type = "SYNC_READY" =>
    /\ Cardinality(Sent("FETCH_SYNC_RECORDS")) = 1
    /\ sync.lastFetchTimestamp = clock

\* C7: once stop() has been called, no FETCH_SYNC_RECORDS message is sent
\* and the watermark is not updated, whatever READY messages came before
\* (a READY after stop() starts the engine again and is not meant).
C7_NoFetchAfterStop ==
  [][(stopped /\ op'.type # "SYNC_READY") =>
       /\ \A k \in 1..Len(out') : out'[k].type # "FETCH_SYNC_RECORDS"
       /\ sync'.lastFetchTimestamp = sync.lastFetchTimestamp]_vars

C4_AddSiteSendsCreate ==
  (/\ op.type = "dispatch"
   /\ op.action = Event("SYNC_ADD_SITE", Some(Bookmark), TRUE, "")
   /\ deviceId # None
   /\ listeners >= 1) =>
    /\ Cardinality(Sent("SEND_SYNC_RECORDS")) = 1
    /\ \A k \in Sent("SEND_SYNC_RECORDS") :
         /\ Len(out[k].records) = 1
         /\ out[k].records[1].action = CREATE
         /\ Len(out[k].records[1].objectId) = IdLen
         /\ Has(out[k].records[1], "bookmark")
         /\ out[k].records[1].bookmark.isFolder = FALSE

\* an action doAction returns from before its switch
Dropped(action) ==
  \/ action.item = None
  \/ ~action.toJS
  \/ ~Has(action.item[1], "objectId")

\* C5: an event with no item, with an item that has no toJS, or with an
\* item that has no objectId is dropped: the dispatch raises nothing, sends
\* no message, asks the store for nothing, and leaves deviceId, the
\* watermark and the local collections as they were.
C5_DroppedEventsAreHarmless ==
  [][(op'.type = "dispatch" /\ Dropped(op'.action)) =>
       /\ ~raised'
       /\ out' = <<>>
       /\ reqs' = <<>>
       /\ pending' = pending
       /\ deviceId' = deviceId
       /\ sync' = sync
       /\ sites' = sites
       /\ siteSettings' = siteSettings]_vars

\* a registered doAction, with deviceId set, gets an item without objectId
C5_Witness ==
  /\ op.type = "dispatch"
  /\ op.action.item # None
  /\ op.action.toJS
  /\ ~Has(op.action.item[1], "objectId")
  /\ callbacks >= 1
  /\ deviceId # None
  /\ out = <<>>
  /\ ~raised

\* C8: a GET_EXISTING_OBJECTS message with a known category and records,
\* handled once the engine is ready, is answered by exactly one
\* RESOLVE_SYNC_RECORDS message.
C8_OneReplyPerRequest ==
  (/\ op.type = "GET_EXISTING_OBJECTS"
   /\ listeners >= 1
   /\ Includes(categoryNames, op.category)
   /\ op.records # None
   /\ op.records # Some(<<>>)
   /\ ~raised) =>
    Cardinality(Sent("RESOLVE_SYNC_RECORDS")) = 1

\* C9: ipcSafeObject turns a 16-byte Uint8Array field of a record into the
\* array of the same 16 numbers in the same order, and converting the
\* result again changes nothing.
C9_IpcSafeObject ==
  op.type = "ipcSafeObject" =>
    /\ \A k \in DOMAIN op.object.fields :
         (op.object.fields[k].t = "Uint8Array" /\ Len(op.object.fields[k].bytes) = IdLen) =>
           /\ op.result.fields[k].t = "Array"
           /\ Len(op.result.fields[k].elems) = IdLen
           /\ \A i \in 1..IdLen :
                op.result.fields[k].elems[i] = JsNum(op.object.fields[k].bytes[i])
    /\ ipcSafeObject(ipcSafeObject(op.object)) = ipcSafeObject(op.object)

\* a record whose objectId is a buffer of 16 different bytes, converted
C9_Witness ==
  /\ op.type = "ipcSafeObject"
  /\ op.object.fields.objectId = JsU8(Bytes16)
  /\ op.result.fields.objectId = ArrayFrom(Bytes16)
  /\ op.result # op.object

\* the tags of a site, the empty list when it has none
TagsOf(site) == IF Has(site, "tags") THEN site.tags ELSE <<>>

\* C10: the record built for a site is keyed by its tags: a bookmark with
\* isFolder = true when the tags include 'bookmark-folder', a bookmark
\* with isFolder = false when they include 'bookmark' and not
\* 'bookmark-folder', a historySite when the site has no tags.
C10_ClassifiedByTags ==
  (/\ op.type = "dispatch"
   /\ CallsSend(op.action)
   /\ op.action.actionType \in {"SYNC_ADD_SITE", "SYNC_UPDATE_SITE", "SYNC_REMOVE_SITE"}
   /\ deviceId # None
   /\ callbacks >= 1) =>
    LET tags == TagsOf(op.action.item[1])
        Keyed(name) == /\ ~raised
                       /\ Len(out) = callbacks
                       /\ \A k \in 1..Len(out) :
                            /\ out[k].type = "SEND_SYNC_RECORDS"
                            /\ Len(out[k].records) = 1
                            /\ Has(out[k].records[1], name)
    IN /\ Includes(tags, "bookmark-folder") =>
            /\ Keyed("bookmark")
            /\ \A k \in 1..Len(out) : out[k].records[1].bookmark.isFolder = TRUE
       /\ (Includes(tags, "bookmark") /\ ~Includes(tags, "bookmark-folder")) =>
            /\ Keyed("bookmark")
            /\ \A k \in 1..Len(out) : out[k].records[1].bookmark.isFolder = FALSE
       /\ tags = <<>> => Keyed("historySite")

\* a folder's record is sent
C10_Witness ==
  /\ op.type = "dispatch"
  /\ op.action.item = Some(WithId(Folder, IdOf(1)))
  /\ op.action.actionType = "SYNC_UPDATE_SITE"
  /\ op.action.toJS
  /\ deviceId # None
  /\ callbacks >= 1
  /\ out # <<>>
  /\ out[1].records[1].bookmark.isFolder

\* C11: a site with an objectId whose tags are not empty and hold neither
\* 'bookmark' nor 'bookmark-folder', in an add, update or remove site
\* event, is dropped in silence: nothing is sent and nothing is raised.
C11_NonSyncableSiteDropped ==
  (/\ op.type = "dispatch"
   /\ op.action.actionType \in {"SYNC_ADD_SITE", "SYNC_UPDATE_SITE", "SYNC_REMOVE_SITE"}
   /\ CallsSend(op.action)
   /\ TagsOf(op.action.item[1]) # <<>>
   /\ ~Includes(TagsOf(op.action.item[1]), "bookmark")
   /\ ~Includes(TagsOf(op.action.item[1]), "bookmark-folder")
   /\ deviceId # None
   /\ callbacks >= 1) =>
    /\ ~raised
    /\ Sent("SEND_SYNC_RECORDS") = {}

\* the site settings of the records of a message
SettingValues(msg) ==
  {msg.records[i].siteSetting :
     i \in {j \in 1..Len(msg.records) : Has(msg.records[j], "siteSetting")}}

\* C12: no SEND_SYNC_RECORDS message carries a site setting whose
\* adControl or cookieControl is undefined for want of an entry in the
\* enum table.
C12_NoUndefinedEnumSent ==
  \A k \in Sent("SEND_SYNC_RECORDS") :
    \A value \in SettingValues(out[k]) :
      /\ value.adControl # UndefinedNum
      /\ value.cookieControl # UndefinedNum

\* C13: once the engine is ready, every clear-history event gives a
\* DELETE_SYNC_CATEGORY message for the history category and every
\* clear-site-settings event a DELETE_SYNC_SITE_SETTINGS message, and
\* neither gives a SEND_SYNC_RECORDS message, whatever item the event has.
C13_ClearSendsCategoryDelete ==
  (op.type = "dispatch" /\ listeners >= 1) =>
    /\ op.action.actionType = "SYNC_CLEAR_HISTORY" =>
         /\ \E k \in Sent("DELETE_SYNC_CATEGORY") : out[k].category = CATEGORY_MAP.historySite
         /\ Sent("SEND_SYNC_RECORDS") = {}
    /\ op.action.actionType = "SYNC_CLEAR_SITE_SETTINGS" =>
         /\ Sent("DELETE_SYNC_SITE_SETTINGS") # {}
         /\ Sent("SEND_SYNC_RECORDS") = {}

\* C14: a GET_EXISTING_OBJECTS message whose category is not one of the
\* known categories is ignored: nothing is raised, nothing is sent and
\* the store is asked for nothing.
C14_UnknownCategoryIgnored ==
  (op.type = "GET_EXISTING_OBJECTS" /\ ~Includes(categoryNames, op.category)) =>
    /\ ~raised
    /\ out = <<>>
    /\ reqs = <<>>

\* the last step sent a device record
DeviceRecordSent ==
  \E k \in Sent("SEND_SYNC_RECORDS") :
    \E i \in 1..Len(out[k].records) : Has(out[k].records[i], "device")

\* C15: at most one device record is sent over a run, however many READY
\* messages arrive: a step that follows one that sent a device record
\* sends none.
C15_OneDeviceRecord == [][DeviceRecordSent => ~DeviceRecordSent']_vars

\* the messages of the last step whose records are site settings
SettingBatches ==
  {k \in Sent("SEND_SYNC_RECORDS") :
     \E i \in 1..Len(out[k].records) : Has(out[k].records[i], "siteSetting")}

SyncableHosts == {h \in DOMAIN siteSettings : isSyncable("siteSetting", siteSettings[h])}

\* every syncable site setting, and no other, has one UPDATE record in
\* the one site-settings message of the last step
SettingsBackfilled ==
  /\ Cardinality(SettingBatches) = 1
  /\ \A k \in SettingBatches :
       /\ Len(out[k].records) = Cardinality(SyncableHosts)
       /\ \A i \in 1..Len(out[k].records) :
            /\ Has(out[k].records[i], "siteSetting")
            /\ out[k].records[i].action = UPDATE
            /\ out[k].records[i].siteSetting.hostPattern \in SyncableHosts
       /\ \A h \in SyncableHosts :
            Cardinality({i \in 1..Len(out[k].records) :
                           out[k].records[i].siteSetting.hostPattern = h}) = 1

\* C16: every READY handled with deviceId set, on a first run or not,
\* sends one site-settings message with one UPDATE record for each
\* syncable site setting, and no record for a setting that is not
\* syncable.
C16_SettingsBackfill ==
  (op.type = "SYNC_READY" /\ ~raised) => SettingsBackfilled

\* a READY that is not a first run backfills the two syncable settings
C16_Witness ==
  /\ op.type = "SYNC_READY"
  /\ ~op.isFirstRun
  /\ ~raised
  /\ SettingsBackfilled
  /\ Cardinality(SyncableHosts) = 2
  /\ ~isSyncable("siteSetting", siteSettings["h3"])

\* C16 as stated: on every READY
C16_OnEveryReady == op.type = "SYNC_READY" => SettingsBackfilled

\* the CREATE records of the last step for the object with this id
CreatesFor(objectId) ==
  {<<k, i>> \in (1..Len(out)) \X (1..Len(sites) + Len(Hosts) + 1) :
     /\ out[k].type = "SEND_SYNC_RECORDS"
     /\ i <= Len(out[k].records)
     /\ Has(out[k].records[i], "objectId")
     /\ out[k].records[i].action = CREATE
     /\ out[k].records[i].objectId = objectId}

\* C17: a first-run READY handled with deviceId set gives every site
\* without objectId that is a bookmark, a bookmark folder or a history
\* site (no tags) a setObjectId action for its path and a CREATE record
\* with that id.
C17_FirstRunBackfill ==
  (op.type = "SYNC_READY" /\ op.isFirstRun /\ ~raised) =>
    \A i \in 1..Len(sites) :
      (/\ ~Has(sites[i], "objectId")
       /\ \/ isSyncable("bookmark", sites[i])
          \/ TagsOf(sites[i]) = <<>>) =>
        \E r \in 1..Len(reqs) :
          /\ reqs[r].objectPath = SitePath(i - 1)
          /\ Cardinality(CreatesFor(reqs[r].objectId)) >= 1

\* the recognized site-setting schema
SchemaFields ==
  {"hostPattern", "zoomLevel", "shieldsUp", "adControl", "cookieControl",
   "safeBrowsing", "noScript", "httpsEverywhere", "fingerprintingProtection",
   "ledgerPayments", "ledgerPaymentsShown"}

\* C18: isSyncable('siteSetting', s) is true exactly when s has a field of
\* the site-setting schema; it is false for an empty object and for an
\* object whose only field is objectId.
C18_SiteSettingSyncable ==
  (op.type = "isSyncable" /\ op.kind = "siteSetting") =>
    /\ op.result <=> (DOMAIN op.item \cap SchemaFields # {})
    /\ DOMAIN op.item = {} => ~op.result
    /\ DOMAIN op.item = {"objectId"} => ~op.result

\* isSyncable has said no to an object whose only field is objectId
C18_Witness ==
  /\ op.type = "isSyncable"
  /\ op.kind = "siteSetting"
  /\ DOMAIN op.item = {"objectId"}
  /\ ~op.result

RecordsFor(objectId) ==
  {<<k, i>> \in (1..Len(out)) \X (1..Len(sites) + Len(Hosts) + 1) :
     /\ out[k].type = "SEND_SYNC_RECORDS"
     /\ i <= Len(out[k].records)
     /\ Has(out[k].records[i], "objectId")
     /\ out[k].records[i].objectId = objectId}

\* C20: id assignment is optimistic and fire-and-forget: a READY handled
\* with deviceId set draws, for every syncable bookmark and every syncable
\* site setting the store holds without objectId, a new id, whatever
\* setObjectId actions for that object are still waiting in the store: it
\* issues a setObjectId action for the object's path and sends a record
\* carrying that action's id. So two builds before the store applied the
\* first action give one object two ids.
C20_OptimisticIds ==
  (op.type = "SYNC_READY" /\ ~raised) =>
    /\ \A i \in 1..Len(sites) :
         (~Has(sites[i], "objectId") /\ isSyncable("bookmark", sites[i])) =>
           \E r \in 1..Len(reqs) :
             /\ reqs[r].objectPath = SitePath(i - 1)
             /\ CreatesFor(reqs[r].objectId) # {}
    /\ \A h \in DOMAIN siteSettings :
         (/\ ~Has(siteSettings[h], "objectId")
          /\ isSyncable("siteSetting", siteSettings[h])) =>
           \E r \in 1..Len(reqs) :
             /\ reqs[r].objectPath = SettingPath(h)
             /\ RecordsFor(reqs[r].objectId) # {}

\* two READY backfills before the store applied the first setObjectId
\* action: two actions with different ids wait for one bookmark, the later
\* one issued by the last READY together with a CREATE record of its id
C20_Witness ==
  /\ op.type = "SYNC_READY"
  /\ ~raised
  /\ \E q1, q2 \in pending :
       /\ q1.objectPath = q2.objectPath
       /\ q1.objectPath.coll = "sites"
       /\ q1.objectId # q2.objectId
       /\ ~Has(sites[q1.objectPath.index + 1], "objectId")
       /\ \A r \in 1..Len(reqs) : reqs[r] # q1
       /\ \E r \in 1..Len(reqs) : reqs[r] = q2
       /\ CreatesFor(q2.objectId) # {}

\* C21: resolution and building are not serialized per objectId. While
\* the sync client holds the snapshot of an object it was answered, a
\* local event on that object is built and sent as usual, and the decision
\* the client then returns for the object is applied as usual, though a
\* record sent since made the snapshot stale.
C21_NotSerialized ==
  [][\A e \in resolution :
       /\ (/\ e.phase = "snapshot"
           /\ op'.type = "dispatch"
           /\ deviceId # None
           /\ callbacks > 0
           /\ op'.action.item # None
           /\ Has(op'.action.item[1], "objectId")
           /\ op'.action.item[1].objectId = e.objectId) =>
            /\ e.objectId \in SentIds(out')
            /\ [objectId |-> e.objectId, phase |-> "stale"] \in resolution'
       /\ (/\ e.phase = "stale"
           /\ op'.type = "RESOLVED_SYNC_RECORDS"
           /\ e.objectId \in AppliedIds(op'.records)) =>
            /\ sites' = ApplyRecords(sites, op'.records[1], 1)
            /\ [objectId |-> e.objectId, phase |-> "appliedStale"] \in resolution']_vars

\* the folder was answered to the sync client, then an update of it was
\* sent, and then the client's decision replaced it
C21_Witness ==
  /\ op.type = "RESOLVED_SYNC_RECORDS"
  /\ [objectId |-> IdOf(1), phase |-> "appliedStale"] \in resolution
  /\ op.records = Some(<<Resolved(UPDATE, IdOf(1), "bookmark", BookmarkValue("n", FALSE))>>)
  /\ sites[1].objectId = IdOf(1)
  /\ sites[1].location = "n"

\* an event that changes one site or site setting which carries an objectId
\* and is syncable
SyncableMutation(action) ==
  /\ action.item # None
  /\ action.toJS
  /\ Has(action.item[1], "objectId")
  /\ \/ /\ action.actionType \in {"SYNC_ADD_SITE", "SYNC_UPDATE_SITE", "SYNC_REMOVE_SITE"}
        /\ \/ isSyncable("bookmark", action.item[1])
           \/ TagsOf(action.item[1]) = <<>>
     \/ /\ action.actionType \in {"SYNC_ADD_SITE_SETTING", "SYNC_UPDATE_SITE_SETTING",
                                  "SYNC_REMOVE_SITE_SETTING"}
        /\ isSyncable("siteSetting", action.item[1])

\* C22: a syncable mutation event dispatched after one or more READY
\* messages, with deviceId set, causes exactly one SEND_SYNC_RECORDS
\* message, and that message holds exactly one record.
C22_TransmitOnce ==
  (/\ op.type = "dispatch"
   /\ SyncableMutation(op.action)
   /\ callbacks >= 1
   /\ deviceId # None) =>
    /\ Cardinality({k \in 1..Len(out) : out[k].type = "SEND_SYNC_RECORDS"}) = 1
    /\ \A k \in 1..Len(out) :
         out[k].type = "SEND_SYNC_RECORDS" => Len(out[k].records) = 1

\* C23: every FETCH_SYNC_RECORDS message carries the persisted watermark
\* as it stood before the step that sent it (0 before the first), and that
\* step then leaves the persisted watermark at the time of the firing,
\* which is not earlier: consecutive fetch windows are contiguous.
C23_ContiguousWindows ==
  [][\A k \in 1..Len(out') :
       out'[k].type = "FETCH_SYNC_RECORDS" =>
         /\ out'[k].startAt = sync.lastFetchTimestamp
         /\ sync'.lastFetchTimestamp = clock'
         /\ out'[k].startAt <= sync'.lastFetchTimestamp]_vars

\* C24: stop() cancels the poll timer and nothing else: it leaves the
\* dispatcher callbacks and the ipc listeners registered, and while the
\* engine is stopped a syncable mutation event is still sent, a
\* GET_EXISTING_OBJECTS message is still answered and the records of a
\* RESOLVED_SYNC_RECORDS message are still applied.
C24_StopLeavesSubscriptions ==
  [][/\ op'.type = "stop" =>
          /\ callbacks' = callbacks
          /\ listeners' = listeners
          /\ \A i \in 1..Len(timers) :
               timers'[i] # timers[i] =>
                 /\ pollIntervalId = Some(i)
                 /\ timers'[i] = [timers[i] EXCEPT !.live = FALSE]
     /\ (/\ stopped
         /\ op'.type = "dispatch"
         /\ SyncableMutation(op'.action)
         /\ callbacks >= 1
         /\ deviceId # None) =>
          \E k \in 1..Len(out') : out'[k].type = "SEND_SYNC_RECORDS"
     /\ (/\ stopped
         /\ op'.type = "GET_EXISTING_OBJECTS"
         /\ listeners >= 1) =>
          \E k \in 1..Len(out') :
            /\ out'[k].type = "RESOLVE_SYNC_RECORDS"
            /\ Len(out'[k].pairs) = Len(op'.records[1])
     /\ (/\ stopped
         /\ op'.type = "RESOLVED_SYNC_RECORDS"
         /\ op'.records # None
         /\ listeners >= 1) =>
          sites' = ApplyRecords(sites, op'.records[1], 1)]_vars

\* after stop(), a record made on another device was applied
C24_Witness ==
  /\ stopped
  /\ op.type = "RESOLVED_SYNC_RECORDS"
  /\ op.records = Some(<<Resolved(CREATE, Bytes16, "bookmark", BookmarkValue("n", FALSE))>>)
  /\ listeners >= 1
  /\ \E i \in 1..Len(sites) : Has(sites[i], "objectId") /\ sites[i].objectId = Bytes16

\* whether a value is or holds, at any depth, a Uint8Array
RECURSIVE HasBuffer(_)
HasBuffer(v) ==
  IF v.t = "Uint8Array" THEN TRUE
  ELSE IF v.t = "Array" THEN \E i \in 1..Len(v.elems) : HasBuffer(v.elems[i])
  ELSE IF v.t = "object" THEN \E k \in DOMAIN v.fields : HasBuffer(v.fields[k])
  ELSE FALSE

\* C25: the result of ipcSafeObject holds no Uint8Array at any depth, not
\* inside nested objects and not inside the elements of arrays.
C25_NoBufferAtAnyDepth ==
  op.type = "ipcSafeObject" => ~HasBuffer(op.result)

\* whether res holds what src holds wherever src is not a buffer and holds
\* none: numbers, strings, booleans, null and plain arrays as they are,
\* objects field by field
RECURSIVE Preserved(_, _)
Preserved(src, res) ==
  IF src.t = "object"
  THEN /\ res.t = "object"
       /\ DOMAIN res.fields = DOMAIN src.fields
       /\ \A k \in DOMAIN src.fields : Preserved(src.fields[k], res.fields[k])
  ELSE HasBuffer(src) \/ res = src

\* C28: ipcSafeObject keeps every field that is not a buffer, at any depth,
\* at its path with its value.
C28_NonBufferFieldsKept ==
  op.type = "ipcSafeObject" => Preserved(op.object, op.result)

\* C26: whenever the engine has a deviceId, the one sendSyncRecords puts
\* on outbound records, it is the deviceId the store holds, the one
\* getExistingObject puts on existing-object records.
C26_DeviceIdsAgree ==
  deviceId # None => sync.deviceId = deviceId

\* the payload field of the records of a category
PayloadOf(categoryName) ==
  CASE categoryName = "BOOKMARKS" -> "bookmark"
    [] categoryName = "HISTORY_SITES" -> "historySite"
    [] categoryName = "PREFERENCES" -> "siteSetting"

\* C27: when a GET_EXISTING_OBJECTS message for a known category is
\* handled and getObjectById finds a local object for each of its records,
\* nothing is raised, no setObjectId action is issued, and every existing
\* object answered carries the id of the object found and the payload of
\* the category asked for.
C27_ExistingObjectOfCategory ==
  (/\ op.type = "GET_EXISTING_OBJECTS"
   /\ listeners >= 1
   /\ Includes(categoryNames, op.category)
   /\ op.records # None
   /\ op.records # Some(<<>>)
   /\ \A i \in 1..Len(op.records[1]) :
        getObjectById(ObjectIdList(op.records[1][i]), op.category).entry # None) =>
    /\ ~raised
    /\ reqs = <<>>
    /\ \A k \in 1..Len(out) :
         /\ out[k].type = "RESOLVE_SYNC_RECORDS"
         /\ \A i \in 1..Len(out[k].pairs) :
              /\ out[k].pairs[i].existing # None
              /\ out[k].pairs[i].existing[1].objectId = ObjectIdList(op.records[1][i])
              /\ Has(out[k].pairs[i].existing[1], PayloadOf(op.category))

=============================================================================
